---- MODULE Spec2Model ----
(***************************************************************************)
(* The <Request> component of react-requests (src/src/Request.js): the     *)
(* request lifecycle (mount, update, fire, transport completion), the      *)
(* response interceptor that writes the cache and the cache read.          *)
(*                                                                         *)
(* JavaScript values are tagged records, so that values of different       *)
(* types can be compared: undefined, null, strings, numbers, plain objects *)
(* (a sequence of key/value pairs in insertion order) and URLSearchParams  *)
(* objects (no enumerable own property).                                   *)
(***************************************************************************)
EXTENDS Integers, Sequences, FiniteSets, TLC

VARIABLES
    props,      \* this.props: the 11 config fields, cache, defer, the callbacks
    mounted,    \* componentDidMount has run
    state,      \* this.state: status, response, error, tag
    store,      \* this.context.store: attached or not, and its state.requests
    pending,    \* the calls of this.axios.request not yet settled, oldest first;
                \* hangs: the transport will never settle the call
    fires,      \* history: the number of calls of fire
    last        \* history: what the last handler did

vars == <<props, mounted, state, store, pending, fires, last>>

(***************************************************************************)
(* Bounds of the model: the calls of fire in a behaviour of Spec, of       *)
(* SpecUpdate and of SpecHang.                                             *)
(***************************************************************************)
MaxFires == 2
MaxUpdateFires == 1
MaxHangFires == 2

(***************************************************************************)
(* JavaScript values.                                                      *)
(***************************************************************************)
Undef == [t |-> "undefined"]
Null == [t |-> "null"]
Str(s) == [t |-> "str", s |-> s]
Num(n) == [t |-> "num", n |-> n]
Obj(kv) == [t |-> "obj", kv |-> kv]
Usp(q) == [t |-> "usp", q |-> q]
KV(k, v) == [k |-> k, v |-> v]

\* obj[key] of a plain object: undefined when the key is absent.
RECURSIVE GetKV(_, _)
GetKV(kv, key) ==
    IF kv = <<>> THEN Undef
    ELSE IF Head(kv).k = key THEN Head(kv).v
    ELSE GetKV(Tail(kv), key)

Get(obj, key) == GetKV(obj.kv, key)

Keys(obj) == {obj.kv[i].k : i \in 1..Len(obj.kv)}

(***************************************************************************)
(* JSON.stringify.  The text is kept as its parse: a string, a number,     *)
(* null, or an object with its members in the order they are written, so   *)
(* that two texts are equal exactly when their parses are.  A member whose *)
(* value is undefined is left out; the members of a plain object come in   *)
(* insertion order; an object without enumerable own properties            *)
(* (URLSearchParams) is written {}.                                        *)
(***************************************************************************)
IsDefined(member) == member.v # Undef

RECURSIVE StringifyValue(_)
StringifyMembers(kv) ==
    LET written == SelectSeq(kv, IsDefined) IN
    [i \in 1..Len(written) |-> <<written[i].k, StringifyValue(written[i].v)>>]

StringifyValue(v) ==
    CASE v.t = "str" -> [json |-> "string", chars |-> v.s]
      [] v.t = "num" -> [json |-> "number", digits |-> ToString(v.n)]
      [] v.t = "null" -> [json |-> "null"]
      [] v.t = "usp" -> [json |-> "object", members |-> <<>>]
      [] v.t = "obj" -> [json |-> "object", members |-> StringifyMembers(v.kv)]

JSONStringify(v) == StringifyValue(v)

(***************************************************************************)
(* getConfig: the whitelist of props that make the axios config.           *)
(***************************************************************************)
ConfigKeys ==
    <<"url", "method", "headers", "params", "data", "timeout", "auth",
      "responseType", "xsrfCookieName", "xsrfHeaderName", "tag">>

getConfig(p) ==
    Obj([i \in 1..Len(ConfigKeys) |-> KV(ConfigKeys[i], p[ConfigKeys[i]])])

\* Object.keys(config).map(k => config[k] === undefined ? delete config[k] : false)
RECURSIVE PruneKV(_)
PruneKV(kv) ==
    IF kv = <<>> THEN <<>>
    ELSE IF Head(kv).v = Undef THEN PruneKV(Tail(kv))
    ELSE <<Head(kv)>> \o PruneKV(Tail(kv))

PruneUndefined(config) == Obj(PruneKV(config.kv))

\* Structural equality of two values: objects with the same keys and equal
\* values under each key, whatever the order of the keys.
RECURSIVE DeepEqual(_, _)
DeepEqual(a, b) ==
    IF a.t = "obj" /\ b.t = "obj"
    THEN /\ Keys(a) = Keys(b)
         /\ \A k \in Keys(a) : DeepEqual(Get(a, k), Get(b, k))
    ELSE a = b

\* componentDidUpdate's test: the configs of the two props stringify the same.
ConfigUnchanged(cur, prev) ==
    JSONStringify(getConfig(cur)) = JSONStringify(getConfig(prev))

(***************************************************************************)
(* Events of a handler, in the order the handler makes them.               *)
(***************************************************************************)
RECURSIVE Occurrences(_, _)
Occurrences(events, e) ==
    IF events = <<>> THEN 0
    ELSE (IF Head(events) = e THEN 1 ELSE 0) + Occurrences(Tail(events), e)

Has(events, e) == Occurrences(events, e) > 0

\* The position of the first e in events, 0 when there is none.
RECURSIVE IndexFrom(_, _, _)
IndexFrom(events, e, i) ==
    IF i > Len(events) THEN 0
    ELSE IF events[i] = e THEN i
    ELSE IndexFrom(events, e, i + 1)

IndexOf(events, e) == IndexFrom(events, e, 1)

(***************************************************************************)
(* The external store: getState().requests maps a tag to an entry          *)
(* {response}; dispatch of a CACHE_REQUEST intent stores the payload's     *)
(* response under the payload's tag.  A tag is a property key: undefined   *)
(* is the key "undefined".                                                 *)
(***************************************************************************)
TagNames == {"a", "b"}
TagKeys == TagNames \cup {"undefined"}
TagKey(tag) == IF tag.t = "str" THEN tag.s ELSE "undefined"
NoEntry == Undef
Entry(r) == [response |-> r]
NoRequests == [n \in TagKeys |-> NoEntry]

RECURSIVE StoreReduce(_, _)
StoreReduce(requests, intents) ==
    IF intents = <<>> THEN requests
    ELSE StoreReduce(
            [requests EXCEPT ![TagKey(Head(intents).payload.tag)] =
                Entry(Head(intents).payload.response)],
            Tail(intents))

(***************************************************************************)
(* getCachedResponse: undefined without a store or without an entry.       *)
(***************************************************************************)
\* Faulty variant: the entry is returned in place of its response.
getCachedResponse_Entry(p, sto) ==
    IF ~sto.attached THEN Undef
    ELSE IF sto.requests[TagKey(p.tag)] # NoEntry
         THEN sto.requests[TagKey(p.tag)]
         ELSE Undef

getCachedResponse(p, sto) ==
    IF ~sto.attached THEN Undef
    ELSE IF sto.requests[TagKey(p.tag)] # NoEntry
         THEN sto.requests[TagKey(p.tag)].response
         ELSE Undef

(***************************************************************************)
(* fire: the synchronous part.  The result names the new state, the events *)
(* in order, the config handed to axios.request (Undef when no call is     *)
(* made) and the argument the callback got.                                *)
(***************************************************************************)
\* Faulty variant: START is set before the cache is read, and a cache hit
\* returns without a further transition.
fire_StartOnCacheHit(p, s, sto) ==
    LET cachedResponse == getCachedResponse(p, sto) IN
    IF cachedResponse # Undef
    THEN [state |-> [s EXCEPT !.status = "START"],
          events |-> <<"fire", "setState">>
                        \o (IF p.onStart THEN <<"onStart">> ELSE <<>>),
          request |-> Undef,
          arg |-> Undef]
    ELSE [state |-> [s EXCEPT !.status = "START"],
          events |-> <<"fire", "setState">>
                        \o (IF p.onStart THEN <<"onStart">> ELSE <<>>)
                        \o <<"request">>,
          request |-> PruneUndefined(getConfig(p)),
          arg |-> Undef]

\* Faulty variant: a cache miss calls the transport without setting START.
fire_NoStart(p, s, sto) ==
    LET cachedResponse == getCachedResponse(p, sto) IN
    IF cachedResponse # Undef
    THEN [state |-> [s EXCEPT !.status = "SUCCESS", !.response = cachedResponse],
          events |-> <<"fire", "setState">>
                        \o (IF p.onSuccess THEN <<"onSuccess">> ELSE <<>>),
          request |-> Undef,
          arg |-> IF p.onSuccess THEN cachedResponse ELSE Undef]
    ELSE [state |-> s,
          events |-> <<"fire">>
                        \o (IF p.onStart THEN <<"onStart">> ELSE <<>>)
                        \o <<"request">>,
          request |-> PruneUndefined(getConfig(p)),
          arg |-> Undef]

fire(p, s, sto) ==
    LET cachedResponse == getCachedResponse(p, sto) IN
    IF cachedResponse # Undef
    THEN [state |-> [s EXCEPT !.status = "SUCCESS", !.response = cachedResponse],
          events |-> <<"fire", "setState">>
                        \o (IF p.onSuccess THEN <<"onSuccess">> ELSE <<>>),
          request |-> Undef,
          arg |-> IF p.onSuccess THEN cachedResponse ELSE Undef]
    ELSE [state |-> [s EXCEPT !.status = "START"],
          events |-> <<"fire", "setState">>
                        \o (IF p.onStart THEN <<"onStart">> ELSE <<>>)
                        \o <<"request">>,
          request |-> PruneUndefined(getConfig(p)),
          arg |-> Undef]

(***************************************************************************)
(* The transport (axios): a call stays pending until the transport         *)
(* resolves it with a response or rejects it; it may resolve any status    *)
(* code (which codes it resolves is the validateStatus of the transport's  *)
(* defaults, not of this component) and it may never settle.  The response *)
(* carries the config of its request, with axios' default method.          *)
(***************************************************************************)
NetworkError == [t |-> "error", name |-> "Error", message |-> "Network Error"]
TypeError ==
    [t |-> "error", name |-> "TypeError",
     message |-> "Cannot read property 'status' of undefined"]
InvariantViolation(msg) ==
    [t |-> "error", name |-> "Invariant Violation", message |-> msg]

DefaultMethod == Str("get")

TransportResponse(req, code, body) ==
    [status |-> code,
     data |-> body,
     config |-> [method |-> IF Get(req.config, "method") = Undef
                            THEN DefaultMethod
                            ELSE Get(req.config, "method")]]

\* String.prototype.toLowerCase on the method names.
ToLowerCase(str) ==
    CASE str = "GET" -> "get"
      [] str = "HEAD" -> "head"
      [] str = "POST" -> "post"
      [] str = "PUT" -> "put"
      [] str = "PATCH" -> "patch"
      [] str = "DELETE" -> "delete"
      [] OTHER -> str

(***************************************************************************)
(* cacheResponseInterceptor, with this.props = p and this.context.store =  *)
(* sto: what it throws (Undef: nothing), what it returns and the intents   *)
(* it dispatches to the store.                                             *)
(***************************************************************************)
\* Faulty variant: delete counts as cacheable.
cacheableMethods_WithDelete == <<"head", "get", "post", "delete">>

cacheableMethods == <<"head", "get", "post">>

\* Faulty variant: the whole response is stored, its config included.
CacheIntent_WholeResponse(tag, response, cache) ==
    [type |-> "CACHE_REQUEST",
     payload |-> [tag |-> tag, response |-> response, timeout |-> cache]]

CacheIntent(tag, response, cache) ==
    [type |-> "CACHE_REQUEST",
     payload |-> [tag |-> tag,
                  response |-> [data |-> response.data, status |-> response.status],
                  timeout |-> cache]]

\* Faulty variant: the tag is not asserted.
cacheResponseInterceptor_NoTagAssertion(p, sto, response) ==
    IF p.cache = Undef
    THEN [threw |-> Undef, value |-> response, intents |-> <<>>]
    ELSE IF IndexOf(cacheableMethods, ToLowerCase(response.config.method.s)) - 1 = -1
    THEN [threw |-> Undef, value |-> Undef, intents |-> <<>>]
    ELSE IF ~(p.cache # Undef /\ sto.attached)
    THEN [threw |-> InvariantViolation(
                        "caching is only available when store is configured"),
          value |-> Undef, intents |-> <<>>]
    ELSE [threw |-> Undef, value |-> response,
          intents |-> <<CacheIntent(p.tag, response, p.cache)>>]

cacheResponseInterceptor(p, sto, response) ==
    IF p.cache = Undef
    THEN [threw |-> Undef, value |-> response, intents |-> <<>>]
    ELSE IF IndexOf(cacheableMethods, ToLowerCase(response.config.method.s)) - 1 = -1
    THEN [threw |-> Undef, value |-> Undef, intents |-> <<>>]
    ELSE IF ~(p.cache # Undef /\ sto.attached)
    THEN [threw |-> InvariantViolation(
                        "caching is only available when store is configured"),
          value |-> Undef, intents |-> <<>>]
    ELSE IF ~(p.cache # Undef /\ p.tag # Undef)
    THEN [threw |-> InvariantViolation("tag property is required for caching"),
          value |-> Undef, intents |-> <<>>]
    ELSE [threw |-> Undef, value |-> response,
          intents |-> <<CacheIntent(p.tag, response, p.cache)>>]

(***************************************************************************)
(* The handlers of the promise of axios.request in fire.                   *)
(***************************************************************************)
\* Math.round(x / d) for x >= 0, d > 0: halves round up.
MathRoundDiv(x, d) == (2 * x + d) \div (2 * d)

\* Faulty variant: case 2 has no break and falls through to the default case.
thenHandler_NoBreak(p, s, response) ==
    LET code == MathRoundDiv(response.status, 100) IN
    IF code = 2
    THEN [state |-> [s EXCEPT !.status = "FAILURE", !.response = response],
          events |-> <<"setState">>
                        \o (IF p.onSuccess THEN <<"onSuccess">> ELSE <<>>)
                        \o <<"setState">>
                        \o (IF p.onFailure THEN <<"onFailure">> ELSE <<>>),
          arg |-> IF p.onFailure THEN response ELSE Undef]
    ELSE [state |-> [s EXCEPT !.status = "FAILURE", !.response = response],
          events |-> <<"setState">>
                        \o (IF p.onFailure THEN <<"onFailure">> ELSE <<>>),
          arg |-> IF p.onFailure THEN response ELSE Undef]

\* Faulty variant: a response clears the error recorded before.
thenHandler_ClearsError(p, s, response) ==
    LET code == MathRoundDiv(response.status, 100) IN
    IF code = 2
    THEN [state |-> [s EXCEPT !.status = "SUCCESS", !.response = response,
                              !.error = Null],
          events |-> <<"setState">>
                        \o (IF p.onSuccess THEN <<"onSuccess">> ELSE <<>>),
          arg |-> IF p.onSuccess THEN response ELSE Undef]
    ELSE [state |-> [s EXCEPT !.status = "FAILURE", !.response = response,
                              !.error = Null],
          events |-> <<"setState">>
                        \o (IF p.onFailure THEN <<"onFailure">> ELSE <<>>),
          arg |-> IF p.onFailure THEN response ELSE Undef]

thenHandler(p, s, response) ==
    LET code == MathRoundDiv(response.status, 100) IN
    IF code = 2
    THEN [state |-> [s EXCEPT !.status = "SUCCESS", !.response = response],
          events |-> <<"setState">>
                        \o (IF p.onSuccess THEN <<"onSuccess">> ELSE <<>>),
          arg |-> IF p.onSuccess THEN response ELSE Undef]
    ELSE [state |-> [s EXCEPT !.status = "FAILURE", !.response = response],
          events |-> <<"setState">>
                        \o (IF p.onFailure THEN <<"onFailure">> ELSE <<>>),
          arg |-> IF p.onFailure THEN response ELSE Undef]

\* Faulty variant: the failure is escalated first, so nothing is recorded.
catchHandler_EscalatesFirst(p, s, err) ==
    [state |-> s, events |-> <<"escalate">>, arg |-> Undef]

\* Faulty variant: a failure resets the status to INIT.
catchHandler_BackToInit(p, s, err) ==
    [state |-> [s EXCEPT !.status = "INIT", !.error = err],
     events |-> <<"setState">>
                    \o (IF p.onError THEN <<"onError">> ELSE <<>>)
                    \o <<"escalate">>,
     arg |-> IF p.onError THEN err ELSE Undef]

catchHandler(p, s, err) ==
    [state |-> [s EXCEPT !.status = "ERROR", !.error = err],
     events |-> <<"setState">>
                    \o (IF p.onError THEN <<"onError">> ELSE <<>>)
                    \o <<"escalate">>,
     arg |-> IF p.onError THEN err ELSE Undef]

\* The transport resolved: the response interceptor, then .then or .catch.
\* Reading response.status of the undefined the interceptor returned throws.
onResolved(p, s, sto, response) ==
    LET ir == cacheResponseInterceptor(p, sto, response) IN
    IF ir.threw # Undef
    THEN LET c == catchHandler(p, s, ir.threw) IN
         [state |-> c.state, events |-> <<"throw">> \o c.events,
          arg |-> c.arg, intents |-> <<>>]
    ELSE IF ir.value = Undef
    THEN LET c == catchHandler(p, s, TypeError) IN
         [state |-> c.state, events |-> <<"throw">> \o c.events,
          arg |-> c.arg, intents |-> ir.intents]
    ELSE LET h == thenHandler(p, s, ir.value) IN
         [state |-> h.state,
          events |-> [i \in 1..Len(ir.intents) |-> "dispatch"] \o h.events,
          arg |-> h.arg, intents |-> ir.intents]

\* The transport rejected: .catch.
onRejected(p, s, err) ==
    LET c == catchHandler(p, s, err) IN
    [state |-> c.state, events |-> c.events, arg |-> c.arg, intents |-> <<>>]

(***************************************************************************)
(* The inputs: the props the host passes, the responses of the transport,  *)
(* the store the context carries.                                          *)
(***************************************************************************)
BaseProps ==
    [url |-> Str("/items"), method |-> Undef, headers |-> Undef, params |-> Undef,
     data |-> Undef, timeout |-> Undef, auth |-> Undef, responseType |-> Undef,
     xsrfCookieName |-> Undef, xsrfHeaderName |-> Undef, tag |-> Undef,
     cache |-> Undef, defer |-> FALSE,
     onStart |-> FALSE, onSuccess |-> FALSE, onFailure |-> FALSE, onError |-> FALSE]

\* The lifecycle inputs: the method, the tag, the cache duration and the
\* callbacks vary, and every update may change all of them.
Methods == {Undef, Str("HEAD"), Str("delete")}
Tags == {Undef, Str("a")}
Caches == {Undef, Num(5000)}
\* The callbacks are registered or not.
WithCallbacks(p, cb) ==
    [p EXCEPT !.onStart = cb, !.onSuccess = cb, !.onFailure = cb, !.onError = cb]

LifecycleProps ==
    {WithCallbacks([BaseProps EXCEPT !.method = m, !.tag = tg, !.cache = c,
                                     !.defer = FALSE], cb) :
        m \in Methods, tg \in Tags, c \in Caches, cb \in BOOLEAN}

StatusCodes == {200, 299, 404}
Bodies == {"X"}

CachedResponse == [data |-> "C", status |-> 200]
NoStore == [attached |-> FALSE, requests |-> NoRequests]
Stores ==
    {NoStore,
     [attached |-> TRUE, requests |-> [NoRequests EXCEPT !["a"] = Entry(CachedResponse)]]}

\* The update inputs: one prop at a time differs from the base props, among
\* them every field of the config, and defer varies.
PropVariants ==
    {BaseProps,
     [BaseProps EXCEPT !.url = Str("/other")],
     [BaseProps EXCEPT !.method = Str("post")],
     [BaseProps EXCEPT !.headers = Obj(<<KV("a", Str("1")), KV("b", Str("2"))>>)],
     [BaseProps EXCEPT !.headers = Obj(<<KV("b", Str("2")), KV("a", Str("1"))>>)],
     [BaseProps EXCEPT !.params = Usp("q=1")],
     [BaseProps EXCEPT !.params = Usp("q=2")],
     [BaseProps EXCEPT !.data = Obj(<<KV("k", Str("v"))>>)],
     [BaseProps EXCEPT !.timeout = Num(1000)],
     [BaseProps EXCEPT !.auth =
        Obj(<<KV("username", Str("u")), KV("password", Str("p"))>>)],
     [BaseProps EXCEPT !.responseType = Str("json")],
     [BaseProps EXCEPT !.xsrfCookieName = Str("X")],
     [BaseProps EXCEPT !.xsrfHeaderName = Str("X")],
     [BaseProps EXCEPT !.tag = Str("a")],
     [BaseProps EXCEPT !.cache = Num(5000)],
     WithCallbacks(BaseProps, TRUE)}

UpdateProps == {[p EXCEPT !.defer = d] : p \in PropVariants, d \in BOOLEAN}
UpdateStatusCodes == {200}

(***************************************************************************)
(* The state after the constructor.                                        *)
(***************************************************************************)
Constructed(p, sto) ==
    /\ props = p
    /\ mounted = FALSE
    /\ state = [status |-> "INIT", response |-> Null, error |-> Null, tag |-> p.tag]
    /\ store = sto
    /\ pending = <<>>
    /\ fires = 0
    /\ last = [op |-> "constructor", events |-> <<>>, arg |-> Undef,
               intents |-> <<>>, req |-> Undef, response |-> Undef]

Init == \E p \in LifecycleProps, sto \in Stores : Constructed(p, sto)

InitUpdate == \E p \in UpdateProps, sto \in Stores : Constructed(p, sto)

(***************************************************************************)
(* The steps.  Done records what a handler did: r is its result, req the   *)
(* transport call it settled and response what the transport answered.     *)
(***************************************************************************)
Done(op, r, req, response) ==
    /\ state' = r.state
    /\ fires' = fires + Occurrences(r.events, "fire")
    /\ last' = [op |-> op, events |-> r.events, arg |-> r.arg,
                intents |-> r.intents, req |-> req, response |-> response]

\* A handler that ends without calling fire.
Idle == [state |-> state, events |-> <<>>, arg |-> Undef, intents |-> <<>>]

\* this.fire() with this.props = p; a behaviour holds at most maxFires calls.
Fire(op, p, maxFires) ==
    LET r == fire(p, state, store) IN
    /\ fires < maxFires
    /\ pending' = IF r.request = Undef THEN pending
                  ELSE Append(pending, [config |-> r.request, hangs |-> FALSE])
    /\ Done(op, [state |-> r.state, events |-> r.events, arg |-> r.arg,
                 intents |-> <<>>], Undef, Undef)

NoFire(op) ==
    /\ pending' = pending
    /\ Done(op, Idle, Undef, Undef)

\* Faulty variant: the mount fires whatever defer is.
componentDidMountFires_IgnoresDefer(p) == TRUE

componentDidMountFires(p) == ~p.defer

componentDidMount(maxFires) ==
    /\ ~mounted
    /\ mounted' = TRUE
    /\ IF componentDidMountFires(props)
       THEN Fire("mount", props, maxFires) ELSE NoFire("mount")
    /\ UNCHANGED <<props, store>>

\* Faulty variant: every update cycle fires unless deferred.
componentDidUpdateFires_NoCompare(cur, prev) == ~cur.defer

\* componentDidUpdate(prevProps) with this.props = cur.  React runs it after
\* every re-render: after the host passed new props, and after a setState of
\* this component, where prevProps are the props as they are.
componentDidUpdateFires(cur, prev) ==
    IF ConfigUnchanged(cur, prev) THEN FALSE ELSE ~cur.defer

componentDidUpdate(newProps, maxFires) ==
    /\ mounted
    /\ props' = newProps
    /\ IF componentDidUpdateFires(newProps, props)
       THEN Fire("update", newProps, maxFires) ELSE NoFire("update")
    /\ UNCHANGED <<mounted, store>>

\* The manual trigger: fire() called by the host.
ManualFire(maxFires) ==
    /\ mounted
    /\ Fire("manual", props, maxFires)
    /\ UNCHANGED <<props, mounted, store>>

\* pending without its i-th call.
Remove(seq, i) == SubSeq(seq, 1, i - 1) \o SubSeq(seq, i + 1, Len(seq))

\* Faulty variant: the response to a request made for other parameters than
\* the current ones is dropped.
TransportResolves_DropsSuperseded(i, code, body) ==
    LET response == TransportResponse(pending[i], code, body)
        current == pending[i].config = PruneUndefined(getConfig(props))
        r == IF current THEN onResolved(props, state, store, response) ELSE Idle IN
    /\ ~pending[i].hangs
    /\ pending' = Remove(pending, i)
    /\ store' = [store EXCEPT !.requests = StoreReduce(@, r.intents)]
    /\ Done("resolve", r, pending[i], response)
    /\ UNCHANGED <<props, mounted>>

TransportResolves(i, code, body) ==
    LET response == TransportResponse(pending[i], code, body)
        r == onResolved(props, state, store, response) IN
    /\ ~pending[i].hangs
    /\ pending' = Remove(pending, i)
    /\ store' = [store EXCEPT !.requests = StoreReduce(@, r.intents)]
    /\ Done("resolve", r, pending[i], response)
    /\ UNCHANGED <<props, mounted>>

TransportRejects(i) ==
    /\ ~pending[i].hangs
    /\ pending' = Remove(pending, i)
    /\ Done("reject", onRejected(props, state, NetworkError), pending[i], Undef)
    /\ UNCHANGED <<props, mounted, store>>

\* The store drops an entry (its expiry policy).
StoreExpires(n) ==
    /\ store.attached
    /\ store.requests[n] # NoEntry
    /\ store' = [store EXCEPT !.requests[n] = NoEntry]
    /\ last' = [op |-> "expire", events |-> <<>>, arg |-> Undef,
                intents |-> <<>>, req |-> Undef, response |-> Undef]
    /\ UNCHANGED <<props, mounted, state, pending, fires>>

Step(hostProps, codes, maxFires) ==
    \/ componentDidMount(maxFires)
    \/ \E newProps \in hostProps : componentDidUpdate(newProps, maxFires)
    \/ ManualFire(maxFires)
    \/ \E i \in DOMAIN pending, code \in codes, body \in Bodies :
            TransportResolves(i, code, body)
    \/ \E i \in DOMAIN pending : TransportRejects(i)
    \/ \E n \in TagKeys : StoreExpires(n)

Next == Step(LifecycleProps, StatusCodes, MaxFires)

NextUpdate == Step(UpdateProps, UpdateStatusCodes, MaxUpdateFires)

\* The lifecycle under every method, tag, cache duration and callback set.
Spec == Init /\ [][Next]_vars

\* The lifecycle under every change of one prop, and under defer.
SpecUpdate == InitUpdate /\ [][NextUpdate]_vars

(***************************************************************************)
(* The lifecycle with a transport that may leave a call unsettled for      *)
(* ever.  The component sets no timer of its own and passes timeout on to  *)
(* the transport only when the host gives one, so nothing in fire bounds   *)
(* the wait.  Fairness: a call the transport does settle has its handlers  *)
(* run (the promise's reactions are queued and the queue is served).       *)
(***************************************************************************)
HangProps ==
    {WithCallbacks([BaseProps EXCEPT !.url = u, !.tag = tg, !.defer = d], cb) :
        u \in {Str("/items"), Str("/other")}, tg \in Tags,
        d \in BOOLEAN, cb \in BOOLEAN}
HangStatusCodes == {200, 404}

InitHang == \E p \in HangProps, sto \in Stores : Constructed(p, sto)

\* The transport gives up on a call without settling its promise.
TransportHangs(i) ==
    /\ ~pending[i].hangs
    /\ pending' = [pending EXCEPT ![i].hangs = TRUE]
    /\ last' = [op |-> "hang", events |-> <<>>, arg |-> Undef,
                intents |-> <<>>, req |-> pending[i], response |-> Undef]
    /\ UNCHANGED <<props, mounted, state, store, fires>>

Settles ==
    \E i \in DOMAIN pending :
        \/ \E code \in HangStatusCodes, body \in Bodies : TransportResolves(i, code, body)
        \/ TransportRejects(i)

NextHang ==
    \/ Step(HangProps, HangStatusCodes, MaxHangFires)
    \/ \E i \in DOMAIN pending : TransportHangs(i)

SpecHang == InitHang /\ [][NextHang]_vars /\ WF_vars(Settles)

(***************************************************************************)
(* What the last handler did, for the properties below.                    *)
(***************************************************************************)
Calls(e) == Occurrences(last.events, e)
Fired == Has(last.events, "fire")
Requested == Has(last.events, "request")
CacheHit == Fired /\ ~Requested
Resolved == last.op = "resolve"
Rejected == last.op = "reject"
\* A fire() completed: by a cache hit, or by the settling of its transport call.
Completed == Resolved \/ Rejected \/ CacheHit
\* The method of the request the settled response answers.
ResponseMethod == ToLowerCase(last.response.config.method.s)
Cacheable == ResponseMethod \in {"head", "get", "post"}
AllRegistered == props.onSuccess /\ props.onFailure /\ props.onError

(***************************************************************************)
(* C1: a completed non-cached request ends in SUCCESS for every status     *)
(* code in 200..299, in FAILURE for every other code, and in ERROR when    *)
(* the transport rejects.  (Stated for the responses the interceptor       *)
(* forwards.)  Math.round(status / 100) sends 250..299 to FAILURE.         *)
(***************************************************************************)
C1_StatusClassifiedByCode ==
    /\ (Resolved /\ ~Has(last.events, "throw")) =>
            state.status = (IF last.response.status \in 200..299
                            THEN "SUCCESS" ELSE "FAILURE")
    /\ Rejected => state.status = "ERROR"

(***************************************************************************)
(* C2: with onSuccess, onFailure and onError registered, a completed       *)
(* fire() (cache hit, resolved or rejected transport call, a throw of the  *)
(* interceptor included) invokes exactly one of the three, once.           *)
(***************************************************************************)
C2_ExactlyOneCallback ==
    (Completed /\ AllRegistered) =>
        /\ Calls("onSuccess") + Calls("onFailure") + Calls("onError") = 1
        /\ Has(last.events, "throw") => Calls("onError") = 1

C2_Witness_InterceptorThrew ==
    /\ Resolved /\ AllRegistered
    /\ Has(last.events, "throw")
    /\ Calls("onError") = 1 /\ Calls("onSuccess") = 0 /\ Calls("onFailure") = 0

(***************************************************************************)
(* C3: when the store is attached and holds an entry for the current tag,  *)
(* fire() sets SUCCESS with exactly the entry's response, invokes          *)
(* onSuccess if registered, makes no transport call and does not invoke    *)
(* onStart.  (A fire leaves the store as it is, so the entry read is the   *)
(* one the store still holds.)                                             *)
(***************************************************************************)
C3_CacheHitShortCircuits ==
    (Fired /\ store.attached /\ store.requests[TagKey(props.tag)] # NoEntry) =>
        /\ state.status = "SUCCESS"
        /\ state.response = store.requests[TagKey(props.tag)].response
        /\ Calls("request") = 0
        /\ Calls("onStart") = 0
        /\ Calls("onSuccess") = (IF props.onSuccess THEN 1 ELSE 0)
        /\ props.onSuccess => last.arg = store.requests[TagKey(props.tag)].response

C3_Witness_CacheHit ==
    /\ Fired /\ store.attached /\ props.tag = Str("a") /\ props.onStart
    /\ store.requests["a"] = Entry(CachedResponse)
    /\ state.status = "SUCCESS" /\ state.response = CachedResponse
    /\ Calls("onSuccess") = 1 /\ pending = <<>>

(***************************************************************************)
(* C4: an update whose new and previous configs are structurally equal     *)
(* triggers no fire(): the status, the response, the error, the transport  *)
(* calls and the callbacks stay as they are.  JSON.stringify compares the  *)
(* keys of headers in insertion order, so a reordered object fires.        *)
(***************************************************************************)
C4_EqualConfigNoFire ==
    [][(last'.op = "update" /\ DeepEqual(getConfig(props'), getConfig(props))) =>
            /\ fires' = fires
            /\ state' = state
            /\ pending' = pending
            /\ last'.events = <<>>]_vars

(***************************************************************************)
(* C5: an update whose new and previous configs differ in a whitelisted    *)
(* field triggers exactly one fire() when defer is false and none when     *)
(* defer is true.  Two URLSearchParams both stringify to {}, so a change   *)
(* of params goes unnoticed.                                               *)
(***************************************************************************)
C5_ChangedConfigFiresOnce ==
    [][(last'.op = "update" /\ ~DeepEqual(getConfig(props'), getConfig(props))) =>
            /\ fires' = fires + (IF props'.defer THEN 0 ELSE 1)
            /\ Occurrences(last'.events, "fire") = (IF props'.defer THEN 0 ELSE 1)]_vars

(***************************************************************************)
(* C6: with a cache duration configured and tag undefined, fire() raises   *)
(* the fatal assertion before any transport call: no transport call is     *)
(* made in that configuration.  (The original statement: fire() itself     *)
(* asserts nothing and issues the call.)                                   *)
(***************************************************************************)
C6_AssertsBeforeTransport ==
    (Fired /\ props.cache # Undef /\ props.tag = Undef) => ~Requested

(***************************************************************************)
(* C6, amended: with a cache duration configured and tag undefined, fire() *)
(* raises nothing and, on a cache miss, issues the transport call; the     *)
(* fatal assertion is raised afterwards by the response interceptor, when  *)
(* the transport resolves a get, head or post request: no intent is        *)
(* dispatched and the request ends in ERROR carrying the assertion (the    *)
(* one about the store when no store is attached, else the one about the   *)
(* tag).                                                                   *)
(***************************************************************************)
C6_AssertsInInterceptor ==
    /\ (Fired /\ props.cache # Undef /\ props.tag = Undef) =>
            /\ ~Has(last.events, "throw")
            /\ store.requests[TagKey(props.tag)] = NoEntry => Requested
    /\ (Resolved /\ props.cache # Undef /\ props.tag = Undef /\ Cacheable) =>
            /\ IndexOf(last.events, "throw") = 1
            /\ last.intents = <<>>
            /\ state.status = "ERROR"
            /\ state.error =
                    (IF store.attached
                     THEN InvariantViolation("tag property is required for caching")
                     ELSE InvariantViolation(
                            "caching is only available when store is configured"))

C6_Witness_TagAssertion ==
    /\ Resolved /\ props.cache # Undef /\ props.tag = Undef /\ Cacheable
    /\ store.attached
    /\ state.status = "ERROR"
    /\ state.error = InvariantViolation("tag property is required for caching")

(***************************************************************************)
(* C7: a response to a request whose method is not head, get or post is    *)
(* forwarded unchanged by the interceptor, also with a cache duration      *)
(* configured: its fire() ends in SUCCESS or FAILURE, never in an ERROR    *)
(* the interceptor caused.  The interceptor returns undefined there.       *)
(***************************************************************************)
C7_NonCacheableForwarded ==
    (Resolved /\ ~Cacheable) =>
        /\ state.status \in {"SUCCESS", "FAILURE"}
        /\ state.response = last.response
        /\ ~Has(last.events, "throw")

(***************************************************************************)
(* C8: a response to a get, head or post request received while a store is *)
(* attached and a cache duration c and a tag t are configured dispatches   *)
(* exactly one CACHE_REQUEST intent, with payload {tag: t, response:       *)
(* {data, status} of the response, timeout: c}.                            *)
(***************************************************************************)
C8_OneCacheIntent ==
    (Resolved /\ Cacheable /\ store.attached
        /\ props.cache # Undef /\ props.tag # Undef) =>
        /\ Calls("dispatch") = 1
        /\ last.intents =
            <<[type |-> "CACHE_REQUEST",
               payload |-> [tag |-> props.tag,
                            response |-> [data |-> last.response.data,
                                          status |-> last.response.status],
                            timeout |-> props.cache]]>>

C8_Witness_HeadCached ==
    /\ Resolved /\ ResponseMethod = "head" /\ store.attached
    /\ props.cache = Num(5000) /\ props.tag = Str("a")
    /\ Len(last.intents) = 1
    /\ last.intents[1].payload.response = [data |-> "X", status |-> 404]
    /\ store.requests["a"] = Entry([data |-> "X", status |-> 404])

(***************************************************************************)
(* C9: a response to a request whose method is not head, get or post never *)
(* produces a cache write intent, also with the cache duration and the tag *)
(* set; an intent is only ever dispatched on a head, get or post response. *)
(***************************************************************************)
C9_NoIntentForOtherMethods ==
    /\ (Resolved /\ ~Cacheable) =>
            (last.intents = <<>> /\ Calls("dispatch") = 0)
    /\ (last.intents # <<>> \/ Calls("dispatch") > 0) => (Resolved /\ Cacheable)

C9_Witness_DeleteNotCached ==
    /\ Resolved /\ ResponseMethod = "delete" /\ store.attached
    /\ props.cache = Num(5000) /\ props.tag = Str("a")
    /\ last.intents = <<>>

(***************************************************************************)
(* C10: the mount calls fire() once when defer is false and not at all     *)
(* when defer is true; under defer no mount and no update calls fire() or  *)
(* changes the state, so that without a manual trigger the status stays    *)
(* INIT; the manual trigger runs fire() whatever defer is: a cache hit     *)
(* sets SUCCESS, and otherwise START is set and the transport called.      *)
(***************************************************************************)
C10_DeferControlsAutomaticFire ==
    /\ [](last.op = "mount" => Calls("fire") = (IF props.defer THEN 0 ELSE 1))
    /\ [][(last'.op \in {"mount", "update"} /\ props'.defer) =>
            (fires' = fires /\ state' = state /\ pending' = pending)]_vars
    /\ [](fires = 0 => state.status = "INIT")
    /\ [](last.op = "manual" =>
            /\ Calls("fire") = 1
            /\ IF getCachedResponse(props, store) # Undef
               THEN state.status = "SUCCESS" /\ ~Requested
               ELSE state.status = "START" /\ Requested)

C10_Witness_ManualFireUnderDefer ==
    /\ last.op = "manual" /\ props.defer /\ fires = 1
    /\ state.status = "START" /\ Len(pending) = 1

(***************************************************************************)
(* C11: with no store attached and no cache duration, the mount (defer     *)
(* false) leaves INIT for START, and when its transport call then resolves *)
(* with a status in 200..299 the status goes from START to SUCCESS,        *)
(* onSuccess (if registered) is invoked once with that response and no     *)
(* intent is dispatched.  Math.round(status / 100) ends a 299 in FAILURE.  *)
(***************************************************************************)
C11_MountResolves2xx ==
    /\ [][(last'.op = "mount" /\ ~store.attached /\ props.cache = Undef) =>
            /\ state.status = "INIT"
            /\ state'.status = "START"
            /\ Len(pending') = 1]_vars
    /\ [][(last.op = "mount" /\ last'.op = "resolve"
                /\ ~store.attached /\ props.cache = Undef
                /\ last'.response.status \in 200..299) =>
            /\ state.status = "START"
            /\ state'.status = "SUCCESS"
            /\ state'.response = last'.response
            /\ Occurrences(last'.events, "onSuccess") = (IF props.onSuccess THEN 1 ELSE 0)
            /\ props.onSuccess => last'.arg = last'.response
            /\ last'.intents = <<>>
            /\ store' = store]_vars

(***************************************************************************)
(* C12: every fire() sets START and calls the transport, and the settling  *)
(* of a transport call makes exactly one transition, to SUCCESS, FAILURE   *)
(* or ERROR: no fire() reaches a terminal status without START.  (The      *)
(* original statement: a cache hit goes to SUCCESS without START.)         *)
(***************************************************************************)
Terminal == {"SUCCESS", "FAILURE", "ERROR"}

C12_StartBeforeTerminal ==
    /\ Fired => (state.status = "START" /\ Requested)
    /\ (Resolved \/ Rejected) =>
            (Calls("setState") = 1 /\ state.status \in Terminal)

(***************************************************************************)
(* C12, amended: a fire() that misses the cache makes one transition, to   *)
(* START, before it calls the transport, once; the settling of a transport *)
(* call (issued by such a fire()) makes exactly one transition, to         *)
(* SUCCESS, FAILURE or ERROR.  A fire() that hits the cache makes one      *)
(* transition, to SUCCESS, without START and without a transport call.     *)
(***************************************************************************)
C12_StartUnlessCacheHit ==
    /\ (Fired /\ getCachedResponse(props, store) = Undef) =>
            /\ state.status = "START"
            /\ Calls("setState") = 1 /\ Calls("request") = 1
            /\ IndexOf(last.events, "setState") < IndexOf(last.events, "request")
    /\ (Fired /\ getCachedResponse(props, store) # Undef) =>
            /\ state.status = "SUCCESS"
            /\ Calls("setState") = 1 /\ Calls("request") = 0
    /\ (Resolved \/ Rejected) =>
            /\ Calls("setState") = 1
            /\ state.status \in Terminal
            /\ last.req # Undef

C12_Witness_CacheHitSkipsStart ==
    /\ last.op = "update" /\ CacheHit /\ fires = 2
    /\ state.status = "SUCCESS" /\ state.response = CachedResponse

(***************************************************************************)
(* C13: the status is INIT exactly as long as fire() has never been        *)
(* called: it is INIT after construction, no mount, update or completion   *)
(* takes it out of INIT without a call of fire(), and once fire() has been *)
(* called no transition sets it back to INIT.                              *)
(***************************************************************************)
C13_InitOnlyInitially ==
    /\ (state.status = "INIT") <=> (fires = 0)
    /\ Fired => state.status # "INIT"
    /\ (Resolved \/ Rejected) => state.status # "INIT"

C13_Witness_NeverBackToInit ==
    /\ fires = 2 /\ pending = <<>>
    /\ last.op = "reject" /\ state.status = "ERROR"
    /\ state.response # Null

(***************************************************************************)
(* C14: when the transport rejects (or the interceptor throws), the        *)
(* handler first sets the state to ERROR with the fault as error, then     *)
(* invokes onError (if registered) with that fault, then escalates, last   *)
(* and exactly once: the escalation always happens and never precedes the  *)
(* state record.                                                           *)
(***************************************************************************)
C14_RecordThenCallbackThenEscalate ==
    (Rejected \/ Has(last.events, "throw")) =>
        LET handled == IF Has(last.events, "throw")
                       THEN Tail(last.events) ELSE last.events IN
        /\ handled = <<"setState">>
                        \o (IF props.onError THEN <<"onError">> ELSE <<>>)
                        \o <<"escalate">>
        /\ state.status = "ERROR"
        /\ Rejected => state.error = NetworkError
        /\ props.onError => last.arg = state.error
        /\ Calls("escalate") = 1
        /\ IndexOf(last.events, "setState") < IndexOf(last.events, "escalate")

C14_Witness_RejectedEscalates ==
    /\ Rejected /\ props.onError
    /\ last.events = <<"setState", "onError", "escalate">>
    /\ state.status = "ERROR" /\ state.error = NetworkError
    /\ last.arg = NetworkError

(***************************************************************************)
(* C15: no fire() leaves the status at START for ever: whenever the status *)
(* is START it eventually changes, a transport call whose promise never    *)
(* settles included.  The component has no timer of its own: a call the    *)
(* transport never settles leaves START in place.                          *)
(***************************************************************************)
C15_NeverStuckAtStart ==
    (state.status = "START") ~> (state.status # "START")

(***************************************************************************)
(* C16: the state after a completion is the outcome of that completion,    *)
(* whichever request it answers: the response (or the fault) of the call   *)
(* that settled last is what the state holds, also when that call was      *)
(* issued for parameters a newer fire() has superseded.                    *)
(***************************************************************************)
C16_LastCompletionWins ==
    /\ (Resolved /\ ~Has(last.events, "throw")) =>
            /\ state.response = last.response
            /\ state.status = (IF MathRoundDiv(last.response.status, 100) = 2
                               THEN "SUCCESS" ELSE "FAILURE")
    /\ (Resolved /\ Has(last.events, "throw")) =>
            (state.status = "ERROR" /\ state.error.t = "error")
    /\ Rejected => (state.status = "ERROR" /\ state.error = NetworkError)

\* Both fires called the transport; the newer call settled first, then the
\* older one, made for the props before the update, overwrote its outcome.
C16_Witness_OlderOverwritesNewer ==
    /\ Resolved /\ ~store.attached /\ props.cache = Undef
    /\ fires = 2 /\ pending = <<>>
    /\ last.req.config # PruneUndefined(getConfig(props))
    /\ state.status = "FAILURE" /\ state.response = last.response

(***************************************************************************)
(* C17: every cache write intent carries the tag under which the request   *)
(* it answers was fired (the tag of that request's config).  The           *)
(* interceptor reads this.props.tag when the response arrives, so a        *)
(* response to a request fired before an update is stored under the tag of *)
(* the props after it.                                                     *)
(***************************************************************************)
C17_IntentUnderTagOfItsRequest ==
    \A n \in DOMAIN last.intents :
        last.intents[n].payload.tag = Get(last.req.config, "tag")

(***************************************************************************)
(* C18: an update cycle with unchanged props, as the setState calls of     *)
(* fire() cause, calls no fire() and changes nothing; a step calls fire()  *)
(* at most once, and only the mount, an update whose props differ from the *)
(* previous ones, or the manual trigger does: the calls of fire() never    *)
(* exceed one for the mount, one per parameter change and the manual       *)
(* triggers.                                                               *)
(***************************************************************************)
C18_StateChangesNeverRefire ==
    /\ [][(last'.op = "update" /\ props' = props) =>
            /\ fires' = fires
            /\ state' = state
            /\ pending' = pending
            /\ last'.events = <<>>]_vars
    /\ [][(fires' # fires) =>
            /\ fires' = fires + 1
            /\ \/ last'.op = "mount" /\ ~mounted /\ mounted'
               \/ last'.op = "update" /\ props' # props
               \/ last'.op = "manual"]_vars
    /\ [][(last'.op \in {"resolve", "reject", "hang", "expire"}) =>
            fires' = fires]_vars

\* The update cycle after START, and the one after a terminal status, fired
\* nothing.
C18_Witness_UpdateAfterStart ==
    /\ last.op = "update" /\ last.events = <<>>
    /\ fires = 1 /\ state.status = "START" /\ Len(pending) = 1
    /\ ~props.defer

(***************************************************************************)
(* C19: a step writes the status and at most one of response and error:    *)
(* the transition to START keeps the response and the error, a transition  *)
(* to SUCCESS or FAILURE (a cache hit included) keeps the error, a         *)
(* transition to ERROR keeps the response, a step without setState keeps   *)
(* the whole state, and no step changes the tag the constructor recorded,  *)
(* also when the tag of the props changes.                                 *)
(***************************************************************************)
C19_TransitionsKeepOtherFields ==
    [][/\ state'.tag = state.tag
       /\ state'.response = state.response \/ state'.error = state.error
       /\ Has(last'.events, "request") =>
            (state'.response = state.response /\ state'.error = state.error)
       /\ state'.status = "START" =>
            (state'.response = state.response /\ state'.error = state.error)
       /\ state'.status \in {"SUCCESS", "FAILURE"} => state'.error = state.error
       /\ state'.status = "ERROR" => state'.response = state.response
       /\ ~Has(last'.events, "setState") => state' = state]_vars

\* A SUCCESS that kept the error of an earlier failure, under a tag of the
\* props that the state does not follow.
C19_Witness_SuccessKeepsError ==
    /\ Resolved /\ state.status = "SUCCESS"
    /\ state.error = NetworkError /\ state.response = last.response
    /\ state.tag = Undef /\ props.tag = Str("a")

(***************************************************************************)
(* C20: whenever the status is START, at least one transport call of this  *)
(* component is in flight, neither resolved nor rejected (a call the       *)
(* transport will never settle is in flight for ever).                     *)
(***************************************************************************)
C20_StartImpliesInFlight ==
    state.status = "START" => Len(pending) >= 1

C20_Witness_StartWithHungCall ==
    /\ state.status = "START" /\ fires = 2
    /\ Len(pending) = 1 /\ pending[1].hangs

====
